---- MODULE Spec2Model ----
(***************************************************************************)
(* FullChain::block_stats (client/rpc/src/chain/chain_full.rs) as a state  *)
(* machine.  Several invocations run concurrently over one shared client   *)
(* (Arc<Client>); the client's block store, best hash and state database   *)
(* are the shared state, each invocation's locals and its own runtime-API  *)
(* instance are per-call state.  The collaborators the function calls      *)
(* (client.block, runtime_api, StorageProof::into_compact_proof, zstd)     *)
(* are modelled by their contracts.                                        *)
(***************************************************************************)
EXTENDS Integers, Sequences, FiniteSets, TLC

\* ---------------------------------------------------------------- bounds
MaxBlocks == 3
MaxExt == 2

\* Two invocations share the client.
Calls == {1, 2}
\* Block hashes: 0 is the zero hash (the parent named by genesis), 1..MaxBlocks
\* are the blocks the ledger can hold, MaxBlocks + 1 is never imported.
Hashes == 0..(MaxBlocks + 1)
NoHash == -1

\* --------------------------------------------------------------- options
None == <<>>
Some(x) == <<x>>
IsSome(o) == Len(o) = 1
Unwrap(o) == o[1]

\* ------------------------------------------------------------ state trie
\* A node is named by its hash.  Two state roots (1 and 4) share the leaf 2.
TrieNodes == 1..4
Roots == {1, 4}
Children(n) == CASE n = 1 -> {2}
                 [] n = 4 -> {2, 3}
                 [] OTHER -> {}

HashLen == 32
NodePayloadLen(n) == 2 + n
\* A node's encoding: header byte, payload, and one length-prefixed hash per child.
EncodedNodeLen(n) == 1 + NodePayloadLen(n) + Cardinality(Children(n)) * (1 + HashLen)

RECURSIVE SumOver(_, _)
SumOver(S, f) == IF S = {} THEN 0
                 ELSE LET x == CHOOSE y \in S : TRUE
                      IN  f[x] + SumOver(S \ {x}, f)

\* StorageProof::encoded_size: a length prefix and each node length-prefixed.
StorageProofLen(w) == 1 + SumOver(w, [n \in TrieNodes |-> 1 + EncodedNodeLen(n)])

RECURSIVE ReachIn(_, _, _)
ReachIn(frontier, seen, w) ==
    IF frontier = {} THEN seen
    ELSE LET next == (UNION {Children(n) : n \in frontier} \cap w) \ seen
         IN  ReachIn(next, seen \cup next, w)

\* In the compact form a child that is itself part of the proof is referenced
\* by an empty inline node instead of its hash.
CompactNodeLen(n, w) == EncodedNodeLen(n) - HashLen * Cardinality(Children(n) \cap w)

\* StorageProof::into_compact_proof(root): fails when the root node is not among
\* the proof's nodes; otherwise keeps the nodes reachable from the root.
IntoCompactProof(w, root) ==
    IF root \notin w
    THEN [ok |-> FALSE, len |-> 0]
    ELSE LET keep == ReachIn({root}, {root}, w)
         IN  [ok |-> TRUE,
              len |-> 1 + SumOver(keep, [n \in TrieNodes |-> 1 + CompactNodeLen(n, w)])]

\* zstd::stream::encode_all(bytes, 0): a frame header plus the payload, which
\* shrinks only once the input is long enough to hold repeats.
ZstdFrameLen == 9
ZstdEncodedLen(n) == ZstdFrameLen + (IF n < 4 * ZstdFrameLen THEN n ELSE n - n \div 4)

\* ----------------------------------------------------------------- blocks
NoBlock == None
HeaderLen == 3 * HashLen + 2
ExtLen(k) == 1 + 5 * k
\* Block::encoded_size: header, then the length-prefixed extrinsics.
BlockEncodedSize(b) == HeaderLen + ExtLen(b.exts)
NumExtrinsics(b) == b.exts

\* The state nodes the execution of block b reads from the state rooted at root:
\* the root, and one more child of the root per extrinsic.
Accessed(root, b) ==
    {root} \cup {ch \in Children(root) :
                    Cardinality({d \in Children(root) : d <= ch}) <= b.exts}

\* The root of the state after a block: a block without extrinsics leaves the
\* state as it was, any other block moves it to the other root.
PostRoot(root, exts) == IF exts = 0 THEN root ELSE CHOOSE r \in Roots : r # root

\* ------------------------------------------------------------ environment
\* The collaborators are deterministic; which of them misbehaves, if any, is
\* fixed for a run:
\*   db         client.block returns Err for the hashes in CorruptHashes
\*   exec       execute_block returns Err
\*   norecord   record_proof is not honoured, extract_proof returns None
\*   emptyproof execution succeeds and records no node
\*   zstd       encode_all returns Err
Faults == {"none", "db", "exec", "norecord", "emptyproof", "zstd"}
CorruptHashes == {1}

VARIABLES blocks, best, stateDb, fault, call, apis

ledger == <<blocks, best, stateDb>>
vars == <<blocks, best, stateDb, fault, call, apis>>


\* ----------------------------------------------------------- collaborators
\* client.block(&BlockId::Hash(h)): Err when the entry cannot be read, else the
\* stored block, if any.
ClientBlock(bl, f, h) ==
    IF f = "db" /\ h \in CorruptHashes THEN [ok |-> FALSE, val |-> None]
    ELSE [ok |-> TRUE, val |-> bl[h]]

\* unwrap_or_best: the given hash, or the client's best hash when none is given.
UnwrapOrBest(arg, bst) == IF IsSome(arg) THEN Unwrap(arg) ELSE bst

\* A runtime-API instance: the proof recorder, absent until record_proof.
NewRuntimeApi == [recorder |-> None]
RecordProof(api, f) ==
    IF f = "norecord" THEN api ELSE [api EXCEPT !.recorder = Some({})]

NoState == 0
\* Core::execute_block(at, b): runs b on the state stored for the block `at`;
\* every node it reads goes to the instance's recorder when one is set.  The
\* storage changes stay in the instance's overlay and are never committed.
ExecuteBlock(api, db, f, at, b) ==
    IF f = "exec" \/ db[at] = NoState
    THEN [ok |-> FALSE, api |-> api]
    ELSE LET read == IF f = "emptyproof" THEN {} ELSE Accessed(db[at], b)
         IN  [ok |-> TRUE,
              api |-> IF IsSome(api.recorder)
                      THEN [api EXCEPT !.recorder = Some(Unwrap(api.recorder) \cup read)]
                      ELSE api]

\* extract_proof takes the recorder out of the instance.
ExtractProof(api) == [proof |-> api.recorder, api |-> [api EXCEPT !.recorder = None]]

ZstdEncodeAll(n, f) ==
    IF f = "zstd" THEN [ok |-> FALSE, len |-> 0] ELSE [ok |-> TRUE, len |-> ZstdEncodedLen(n)]

\* ------------------------------------------------------------- block_stats
ZeroStats == [witness_len |-> 0, witness_compact_len |-> 0,
              witness_compressed_len |-> 0, block_len |-> 0,
              block_num_extrinsics |-> 0]
OkNone == [kind |-> "None", stats |-> ZeroStats]
OkSome(st) == [kind |-> "Some", stats |-> st]
ErrClient == [kind |-> "ErrClient", stats |-> ZeroStats]
ErrOther == [kind |-> "ErrOther", stats |-> ZeroStats]
NoResult == [kind |-> "-", stats |-> ZeroStats]

\* The value returned at each early return and at each `?`: client_err and
\* Error::Client(Box::new(err)) both give Error::Client, the missing proof
\* gives Error::Other.
BlockLookupFailed == ErrClient
BlockNotFoundErr == ErrClient
BlockNotFound == OkNone
ParentNotFoundErr == ErrClient
ParentNotFound == OkNone
ExecutionFailedNone == OkNone
ExecutionFailed == ErrClient
NoProofRecordedClient == ErrClient
NoProofRecorded == ErrOther
CompactionFailed == ErrClient
CompressionFailed == ErrClient

\* Lines 108-111: what the function reads from the two fetched blocks.
BlockLenOf(block, parent_block) == BlockEncodedSize(block)
NumExtrinsicsOfParent(block, parent_block) == NumExtrinsics(parent_block)
NumExtrinsicsOf(block, parent_block) == NumExtrinsics(block)
PreRootOfBlock(block, parent_block) == block.state_root
PreRoot(block, parent_block) == parent_block.state_root
ExecuteAt(hash, block) == block.parent

\* Lines 127-133.
MakeStatsSwapped(wl, wcl, wzl, bl, bn) ==
    [witness_len |-> wcl, witness_compact_len |-> wl,
     witness_compressed_len |-> wzl, block_len |-> bl,
     block_num_extrinsics |-> bn]
MakeStats(wl, wcl, wzl, bl, bn) ==
    [witness_len |-> wl, witness_compact_len |-> wcl,
     witness_compressed_len |-> wzl, block_len |-> bl,
     block_num_extrinsics |-> bn]

\* Line 112: every invocation gets a runtime-API instance of its own.
ApiOfShared(c) == 1
ApiOf(c) == c

NoLog == [block |-> "-", parent |-> "-", exec |-> "-", proof |-> "-",
          compact |-> "-", zstd |-> "-"]
IdleCall == [pc |-> "idle", hash |-> NoHash, block |-> NoBlock,
             parent_block |-> NoBlock, result |-> NoResult,
             log |-> NoLog, exec_at |-> NoHash, pre_root |-> NoState,
             block_len |-> 0, block_num_extrinsics |-> 0]

Args == {None} \cup {Some(h) : h \in 1..(MaxBlocks + 1)}

Finished(c, res, lg) ==
    call' = [call EXCEPT ![c].pc = "done", ![c].result = res, ![c].log = lg]

\* Lines 87-97: resolve the hash and fetch the block.
FetchBlock(c) ==
    /\ call[c].pc = "idle"
    /\ \E arg \in Args :
         LET hash == UnwrapOrBest(arg, best)
             r == ClientBlock(blocks, fault, hash)
             started == [call[c] EXCEPT !.hash = hash]
         IN  IF ~r.ok
             THEN call' = [call EXCEPT ![c] =
                     [started EXCEPT !.pc = "done", !.result = BlockLookupFailed,
                                     !.log.block = "err"]]
             ELSE IF ~IsSome(r.val)
             THEN call' = [call EXCEPT ![c] =
                     [started EXCEPT !.pc = "done", !.result = BlockNotFound,
                                     !.log.block = "none"]]
             ELSE call' = [call EXCEPT ![c] =
                     [started EXCEPT !.pc = "parent", !.block = r.val,
                                     !.log.block = "some"]]
    /\ UNCHANGED <<ledger, fault, apis>>

\* Lines 98-107: fetch the block named by the header's parent hash.
FetchParent(c) ==
    /\ call[c].pc = "parent"
    /\ LET parent_hash == Unwrap(call[c].block).parent
           r == ClientBlock(blocks, fault, parent_hash)
       IN  IF ~r.ok
           THEN Finished(c, BlockLookupFailed, [call[c].log EXCEPT !.parent = "err"])
           ELSE IF ~IsSome(r.val)
           THEN Finished(c, ParentNotFound, [call[c].log EXCEPT !.parent = "none"])
           ELSE call' = [call EXCEPT ![c].pc = "exec", ![c].parent_block = r.val,
                                     ![c].log.parent = "some"]
    /\ UNCHANGED <<ledger, fault, apis>>

\* Lines 108-116: a fresh runtime-API instance with proof recording on executes
\* the block on the parent's state.
ExecuteLocal(c) ==
    /\ call[c].pc = "exec"
    /\ LET block == Unwrap(call[c].block)
           parent_block == Unwrap(call[c].parent_block)
           at == ExecuteAt(call[c].hash, block)
           api == RecordProof(NewRuntimeApi, fault)
           r == ExecuteBlock(api, stateDb, fault, at, block)
           locals == [call[c] EXCEPT
                        !.block_len = BlockLenOf(block, parent_block),
                        !.block_num_extrinsics = NumExtrinsicsOf(block, parent_block),
                        !.pre_root = PreRoot(block, parent_block),
                        !.exec_at = at]
       IN  IF ~r.ok
           THEN /\ call' = [call EXCEPT ![c] =
                     [locals EXCEPT !.pc = "done", !.result = ExecutionFailed,
                                    !.log.exec = "err"]]
                /\ apis' = [apis EXCEPT ![ApiOf(c)] = NewRuntimeApi]
           ELSE /\ call' = [call EXCEPT ![c] =
                     [locals EXCEPT !.pc = "finish", !.log.exec = "ok"]]
                /\ apis' = [apis EXCEPT ![ApiOf(c)] = r.api]
    /\ UNCHANGED fault

ExecuteCommitting(c) ==
    /\ ExecuteLocal(c)
    /\ stateDb' = [stateDb EXCEPT ![call'[c].exec_at] =
                      PostRoot(stateDb[call'[c].exec_at], Unwrap(call[c].block).exts)]
    /\ UNCHANGED <<blocks, best>>

Execute(c) ==
    /\ ExecuteLocal(c)
    /\ UNCHANGED ledger

\* Lines 117-134: extract the proof, compact it against pre_root, compress it,
\* assemble the result.  The runtime-API instance is dropped on return.
Finish(c) ==
    /\ call[c].pc = "finish"
    /\ LET x == ExtractProof(apis[ApiOf(c)])
           lg0 == call[c].log
       IN  IF ~IsSome(x.proof)
           THEN Finished(c, NoProofRecorded, [lg0 EXCEPT !.proof = "none"])
           ELSE
             LET witness == Unwrap(x.proof)
                 lg1 == [lg0 EXCEPT !.proof = IF witness = {} THEN "empty" ELSE "nodes"]
                 witness_len == StorageProofLen(witness)
                 cp == IntoCompactProof(witness, call[c].pre_root)
             IN  IF ~cp.ok
                 THEN Finished(c, CompactionFailed, [lg1 EXCEPT !.compact = "err"])
                 ELSE
                   LET z == ZstdEncodeAll(cp.len, fault)
                       lg2 == [lg1 EXCEPT !.compact = "ok"]
                   IN  IF ~z.ok
                       THEN Finished(c, CompressionFailed, [lg2 EXCEPT !.zstd = "err"])
                       ELSE Finished(c,
                              OkSome(MakeStats(witness_len, cp.len, z.len,
                                               call[c].block_len,
                                               call[c].block_num_extrinsics)),
                              [lg2 EXCEPT !.zstd = "ok"])
    /\ apis' = [apis EXCEPT ![ApiOf(c)] = NewRuntimeApi]
    /\ UNCHANGED <<ledger, fault>>

\* The caller takes the result; the slot is free for the next invocation.
Return(c) ==
    /\ call[c].pc = "done"
    /\ call' = [call EXCEPT ![c] = IdleCall]
    /\ UNCHANGED <<ledger, fault, apis>>

BlockStatsStep(c) == FetchBlock(c) \/ FetchParent(c) \/ Execute(c) \/ Finish(c)

\* ---------------------------------------------------------------- ledger
NumBlocks == Cardinality({h \in Hashes : IsSome(blocks[h])})

\* Block import: the next block extends the best block.  Its header's root
\* names the state the block was built against, the state stored for its
\* parent; the state stored for the block itself is the one after the block.
ImportBlock ==
    /\ NumBlocks < MaxBlocks
    /\ \E exts \in 0..MaxExt :
         LET h == NumBlocks + 1
             pre == stateDb[best]
         IN  /\ blocks' = [blocks EXCEPT ![h] =
                             Some([parent |-> best, state_root |-> pre, exts |-> exts])]
             /\ stateDb' = [stateDb EXCEPT ![h] = PostRoot(pre, exts)]
             /\ best' = h
    /\ UNCHANGED <<fault, call, apis>>

\* Genesis has no extrinsics and no parent: the state stored for it is the state
\* its header names.
Init ==
    /\ \E root \in Roots :
         /\ blocks = [h \in Hashes |->
                        IF h = 1 THEN Some([parent |-> 0, state_root |-> root, exts |-> 0])
                        ELSE NoBlock]
         /\ stateDb = [h \in Hashes |-> IF h = 1 THEN root ELSE NoState]
    /\ best = 1
    /\ fault \in Faults
    /\ call = [c \in Calls |-> IdleCall]
    /\ apis = [c \in Calls |-> NewRuntimeApi]

Next ==
    \/ \E c \in Calls : FetchBlock(c)
    \/ \E c \in Calls : FetchParent(c)
    \/ \E c \in Calls : Execute(c)
    \/ \E c \in Calls : Finish(c)
    \/ \E c \in Calls : Return(c)
    \/ ImportBlock

Spec == Init /\ [][Next]_vars

\* ------------------------------------------------- one invocation, alone
\* block_stats run from start to end with nothing else running: the value the
\* function returns on the ledger (bl, bst, db) with collaborators f.
BlockStatsAlone(bl, bst, db, f, arg) ==
    LET hash == UnwrapOrBest(arg, bst)
        r1 == ClientBlock(bl, f, hash)
    IN  IF ~r1.ok THEN BlockLookupFailed
        ELSE IF ~IsSome(r1.val) THEN BlockNotFound
        ELSE
          LET block == Unwrap(r1.val)
              r2 == ClientBlock(bl, f, block.parent)
          IN  IF ~r2.ok THEN BlockLookupFailed
              ELSE IF ~IsSome(r2.val) THEN ParentNotFound
              ELSE
                LET parent_block == Unwrap(r2.val)
                    api == RecordProof(NewRuntimeApi, f)
                    ex == ExecuteBlock(api, db, f, ExecuteAt(hash, block), block)
                IN  IF ~ex.ok THEN ExecutionFailed
                    ELSE
                      LET x == ExtractProof(ex.api)
                      IN  IF ~IsSome(x.proof) THEN NoProofRecorded
                          ELSE
                            LET witness == Unwrap(x.proof)
                                cp == IntoCompactProof(witness,
                                                       PreRoot(block, parent_block))
                                z == ZstdEncodeAll(cp.len, f)
                            IN  IF ~cp.ok THEN CompactionFailed
                                ELSE IF ~z.ok THEN CompressionFailed
                                ELSE OkSome(MakeStats(
                                       StorageProofLen(witness), cp.len, z.len,
                                       BlockLenOf(block, parent_block),
                                       NumExtrinsicsOf(block, parent_block)))

\* ------------------------------------------------------------ vocabulary
Done(c) == call[c].pc = "done"
Present(h) == IsSome(blocks[h])
LookupOk(h) == ClientBlock(blocks, fault, h).ok
ParentOf(h) == Unwrap(blocks[h]).parent
IsErr(res) == res.kind \in {"ErrClient", "ErrOther"}
\* The ledger is append-only: an invocation read the ledger as it is now unless
\* the block it did not find has been imported since.
SawCurrentLedger(c) == call[c].log.block = "none" => ~Present(call[c].hash)
LedgerConsistent ==
    \A h \in Hashes : Present(h) =>
        stateDb[h] = PostRoot(Unwrap(blocks[h]).state_root, Unwrap(blocks[h]).exts)
\* Compaction of the witness of block h against the root block_stats uses succeeds.
CompactsOk(h) ==
    IntoCompactProof(Accessed(stateDb[ParentOf(h)], Unwrap(blocks[h])),
                     Unwrap(blocks[ParentOf(h)]).state_root).ok

\* ----------------------------------------------------------------- claims

\* C1: for an identifier that is not present in the provider (the lookup
\* succeeds and finds no block) block_stats returns Ok(None), not an error,
\* whatever else the ledger holds.
C1_AbsentBlockIsNone ==
    \A c \in Calls :
        (Done(c) /\ ~Present(call[c].hash) /\ LookupOk(call[c].hash))
            => call[c].result = OkNone
C1_Witness ==
    \E c \in Calls :
        /\ Done(c) /\ ~Present(call[c].hash) /\ LookupOk(call[c].hash)
        /\ call[c].result = OkNone
        /\ NumBlocks >= 2

\* C2: for a block that exists and whose parent (the block its header names)
\* is absent, block_stats returns Ok(None), never an error; genesis is such a
\* block.
C2_AbsentParentIsNone ==
    \A c \in Calls :
        (/\ Done(c) /\ call[c].log.block = "some"
         /\ ~Present(ParentOf(call[c].hash)) /\ LookupOk(ParentOf(call[c].hash)))
            => call[c].result = OkNone
C2_Witness ==
    \E c \in Calls :
        /\ Done(c) /\ call[c].log.block = "some" /\ call[c].hash = 1
        /\ ~Present(ParentOf(1)) /\ call[c].result = OkNone

\* C3: every failure other than block-or-parent-not-found makes block_stats
\* return an error; a returned Some(BlockStats) means both lookups, execution,
\* proof extraction, compaction and compression succeeded in that call.
C3_FailuresAreErrors ==
    \A c \in Calls : Done(c) =>
        LET lg == call[c].log
            failed == \/ "err" \in {lg.block, lg.parent, lg.exec, lg.compact, lg.zstd}
                      \/ lg.proof = "none"
        IN  /\ failed => IsErr(call[c].result)
            /\ call[c].result.kind = "Some" =>
                 /\ lg.block = "some" /\ lg.parent = "some" /\ lg.exec = "ok"
                 /\ lg.proof \in {"empty", "nodes"}
                 /\ lg.compact = "ok" /\ lg.zstd = "ok"
                 /\ fault \notin {"exec", "norecord", "emptyproof", "zstd"}
                 /\ LookupOk(call[c].hash) /\ LookupOk(ParentOf(call[c].hash))
            /\ call[c].result.kind = "None" => ~failed
C3_Witness ==
    \E c \in Calls :
        /\ Done(c) /\ call[c].log.compact = "ok" /\ call[c].log.zstd = "err"
        /\ call[c].result = ErrClient

\* C4 as stated: when execution succeeds and the recorded witness is empty or
\* absent, block_stats returns the NoProofRecorded error.
C4_EmptyOrAbsentIsNoProof ==
    \A c \in Calls :
        (Done(c) /\ call[c].log.exec = "ok" /\ call[c].log.proof \in {"none", "empty"})
            => call[c].result = ErrOther

\* C4 amended: when execution succeeds and the recorded witness is absent
\* (extract_proof returns None), block_stats returns the NoProofRecorded error,
\* whose kind no execution, compaction or compression failure has, and no
\* BlockStats.
C4_AbsentIsNoProof ==
    \A c \in Calls : Done(c) =>
        LET lg == call[c].log
        IN  /\ (lg.exec = "ok" /\ lg.proof = "none") => call[c].result = ErrOther
            /\ "err" \in {lg.block, lg.parent, lg.exec, lg.compact, lg.zstd}
                  => call[c].result.kind # "ErrOther"
C4_Witness ==
    \E c \in Calls :
        /\ Done(c) /\ call[c].log.exec = "ok" /\ call[c].log.proof = "none"
        /\ call[c].result = ErrOther

\* C5: two invocations for the same block identifier, with no change of the
\* ledger between them, return the same result: the same kind and, for Some,
\* the same five fields.
C5_RepeatableResult ==
    \A c1, c2 \in Calls :
        (/\ Done(c1) /\ Done(c2) /\ call[c1].hash = call[c2].hash
         /\ SawCurrentLedger(c1) /\ SawCurrentLedger(c2))
            => call[c1].result = call[c2].result
C5_Witness ==
    \E c1, c2 \in Calls :
        /\ c1 # c2 /\ Done(c1) /\ Done(c2) /\ call[c1].hash = call[c2].hash
        /\ call[c1].result.kind = "Some" /\ call[c1].result = call[c2].result

\* C6: under any interleaving of concurrent invocations each one returns what
\* it would return run alone; no invocation sees another's recorder.
C6_IsolatedInvocations ==
    \A c \in Calls :
        (Done(c) /\ SawCurrentLedger(c))
            => call[c].result =
                 BlockStatsAlone(blocks, best, stateDb, fault, Some(call[c].hash))
C6_Witness ==
    \E c1, c2 \in Calls :
        /\ c1 # c2 /\ Done(c1) /\ call[c1].result.kind = "Some"
        /\ call[c2].pc = "finish" /\ IsSome(apis[ApiOf(c2)].recorder)

\* C7: no step of block_stats, on any path, changes the ledger: the stored
\* blocks, the best hash and the stored state of every block stay as they were.
C7_LedgerUntouched ==
    [][\A c \in Calls : BlockStatsStep(c) => UNCHANGED ledger]_vars
C7_Witness ==
    \E c \in Calls :
        /\ Done(c) /\ call[c].result.kind = "Some" /\ LedgerConsistent
        /\ Unwrap(call[c].block).exts > 0
        /\ stateDb[call[c].exec_at] = Unwrap(call[c].block).state_root

\* C8: in every returned Some(BlockStats), witness_compact_len <= witness_len.
C8_CompactNotLarger ==
    \A c \in Calls :
        (Done(c) /\ call[c].result.kind = "Some")
            => call[c].result.stats.witness_compact_len
                 <= call[c].result.stats.witness_len
C8_Witness ==
    \E c \in Calls :
        /\ Done(c) /\ call[c].result.kind = "Some"
        /\ call[c].result.stats.witness_compact_len
             < call[c].result.stats.witness_len

\* C9: for a block with k extrinsics that is present together with its parent
\* and whose execution, compaction and compression succeed, block_stats returns
\* Some(stats) with block_num_extrinsics = k and block_len the encoded size of
\* that block, both of the requested block and not of its parent.
C9_BlockFields ==
    \A c \in Calls : Done(c) =>
        /\ call[c].result.kind = "Some" =>
             /\ call[c].result.stats.block_num_extrinsics
                  = Unwrap(blocks[call[c].hash]).exts
             /\ call[c].result.stats.block_len
                  = BlockEncodedSize(Unwrap(blocks[call[c].hash]))
        /\ (/\ call[c].log.block = "some" /\ Present(ParentOf(call[c].hash))
            /\ LookupOk(call[c].hash) /\ LookupOk(ParentOf(call[c].hash))
            /\ fault \notin {"exec", "norecord", "emptyproof", "zstd"}
            /\ CompactsOk(call[c].hash))
              => call[c].result.kind = "Some"
C9_Witness ==
    \E c \in Calls :
        /\ Done(c) /\ call[c].result.kind = "Some"
        /\ call[c].result.stats.block_num_extrinsics = MaxExt
        /\ Unwrap(blocks[ParentOf(call[c].hash)]).exts # MaxExt

====
